---- MODULE Spec2Model ----
(***************************************************************************)
(* Model of reddit_qa_to_notion_mcp.py: the bearer-token verifier, the     *)
(* three Reddit fetch tools and the Notion page writer, driven by a        *)
(* dispatcher that serves one tool invocation at a time.                   *)
(*                                                                         *)
(* Python strings built with f-strings or + are sequences of parts;        *)
(* dictionaries are sets of <<key, value>> pairs or records; an Optional   *)
(* result is <<>> (None) or a one-element sequence.                        *)
(***************************************************************************)
EXTENDS Integers, Sequences, FiniteSets, TLC

\* ---------------------------------------------------------------- bounds
\* Posts the upstream listing has available for one call.
MaxPosts == 2
\* Largest limit / comment_limit a caller passes (the smallest is -1).
MaxLimit == 2
\* Entries of reddit_sources in one save call.
MaxSources == 2
\* Tool invocations served in one run of the server.
MaxCalls == 2

\* ------------------------------------------------------ program constants
\* e.response.text[:500]
BodyLimit == 500
\* question[:50] + "..." if len(question) > 50
QuestionLimit == 50

\* ------------------------------------------------------------ Python bits
\* Python's None, where a str is expected.
None == "<None>"

\* bool(s) of an Optional[str]: None and "" are falsy.
Truthy(s) == s # None /\ s # ""

\* a or b
Or(a, b) == IF Truthy(a) THEN a ELSE b

Min(a, b) == IF a <= b THEN a ELSE b
Max(a, b) == IF a >= b THEN a ELSE b

\* A slice that keeps one element too many.
PySliceOffByOne(s, n) ==
    SubSeq(s, 1, IF n >= 0 THEN Min(n + 1, Len(s)) ELSE Max(Len(s) + n + 1, 0))

\* s[:n] of Python: a negative n counts from the end.
PySlice(s, n) ==
    SubSeq(s, 1, IF n >= 0 THEN Min(n, Len(s)) ELSE Max(Len(s) + n, 0))

\* A string of n characters, character i being the numeral of i.
Text(n) == [i \in 1..n |-> ToString(i)]

\* dict.get(key, default) on a set of <<key, value>> pairs.
Get(d, key, default) ==
    IF \E p \in d : p[1] = key
    THEN (CHOOSE p \in d : p[1] = key)[2]
    ELSE default

\* --------------------------------------------------------- the verifier
\* verify_token without the check that a key is configured.
verify_token_no_key_check(valid_token, token) ==
    IF token # valid_token
    THEN <<>>
    ELSE << [token |-> token, client_id |-> "single_user",
             scopes |-> {"reddit:read", "notion:write"},
             expires_at |-> None] >>

\* SimpleTokenVerifier.verify_token: None (<<>>) or an AccessToken.
verify_token(valid_token, token) ==
    IF ~Truthy(valid_token) \/ token # valid_token
    THEN <<>>
    ELSE << [token |-> token, client_id |-> "single_user",
             scopes |-> {"reddit:read", "notion:write"},
             expires_at |-> None] >>

\* AuthSettings(required_scopes=...)
required_scopes == {"reddit:read", "notion:write"}

\* ------------------------------------------------------- upstream Reddit
Comment(b, r) == [kind |-> "comment", body |-> b, replies |-> r]
MoreComments == [kind |-> "more", body |-> None, replies |-> <<>>]

\* Two submissions: one with a comment tree holding a placeholder and a
\* reply, one with no comments.
Submissions ==
    { [title |-> "t1", selftext |-> "s1", url |-> "http://u1",
       created_utc |-> 1700000001, num_comments |-> 4, permalink |-> "/r/a/1",
       comments |-> << Comment("c1", << Comment("c3", <<>>), MoreComments >>),
                       MoreComments,
                       Comment("c2", <<>>) >>],
      [title |-> "t2", selftext |-> "", url |-> "http://u2",
       created_utc |-> 1700000002, num_comments |-> 0, permalink |-> "/r/b/2",
       comments |-> <<>>] }

RECURSIVE SeqsUpTo(_, _)
\* The sequences over S of length at most n.
SeqsUpTo(S, n) ==
    IF n = 0 THEN {<<>>}
    ELSE LET shorter == SeqsUpTo(S, n - 1)
         IN  shorter \cup {Append(s, x) : s \in shorter, x \in S}

\* An HTTP response attached to an exception.
Response(status, n) ==
    [status_code |-> status,
     headers |-> {<<"retry-after", "7">>},
     text |-> Text(n)]
NoResponse == [status_code |-> 0, headers |-> {}, text |-> <<>>]

\* What the upstream can raise: has says whether the exception object has a
\* response attribute ("absent": no attribute, "none": the attribute is None).
Exceptions ==
    { [cls |-> "TooManyRequests", msg |-> "received 429 HTTP response",
       has |-> "present", response |-> Response(429, BodyLimit + 1)],
      [cls |-> "NotFound", msg |-> "received 404 HTTP response",
       has |-> "present", response |-> Response(404, 3)],
      [cls |-> "ValueError", msg |-> "bad value",
       has |-> "absent", response |-> NoResponse],
      [cls |-> "ConnectionError", msg |-> "connection refused",
       has |-> "none", response |-> NoResponse] }

NoFailure == [at |-> 0, phase |-> "none", exc |-> CHOOSE e \in Exceptions : e.has = "absent"]

\* Where the upstream fails during one call: fetching the at-th item of the
\* listing ("next", also one past the last item), reading the at-th post's
\* fields ("fields") or materializing its comments ("comments").
Failures(n) ==
    {NoFailure}
    \cup [at : 1..(n + 1), phase : {"next"}, exc : Exceptions]
    \cup [at : 1..n, phase : {"fields", "comments"}, exc : Exceptions]

\* One call's upstream: the posts the listing has and where it fails.
Upstreams ==
    UNION { [avail : {a}, fail : Failures(Len(a))] : a \in SeqsUpTo(Submissions, MaxPosts) }

\* limit and comment_limit are not validated: any integer is passed on.
Limits == (-1)..MaxLimit

\* subreddit.top(limit=limit) / subreddit.search(limit=limit): the listing
\* stops once it has yielded limit posts.
Listing(avail, limit) ==
    SubSeq(avail, 1, IF limit >= 0 THEN Min(limit, Len(avail)) ELSE 0)

RECURSIVE replace_more(_)
\* post.comments.replace_more(limit=0): the placeholders are removed.
replace_more(forest) ==
    IF forest = <<>> THEN <<>>
    ELSE LET h == Head(forest)
         IN  IF h.kind = "more"
             THEN replace_more(Tail(forest))
             ELSE <<Comment(h.body, replace_more(h.replies))>> \o replace_more(Tail(forest))

RECURSIVE list(_)
\* post.comments.list(): the tree flattened breadth first.
list(queue) ==
    IF queue = <<>> THEN <<>>
    ELSE <<Head(queue)>> \o list(Tail(queue) \o Head(queue).replies)

\* ------------------------------------------------------ the fetch tools
\* RedditPost(title=..., ..., comments=[])
RedditPost(post) ==
    [title |-> post.title, body |-> post.selftext, url |-> post.url,
     created_utc |-> post.created_utc, num_comments |-> post.num_comments,
     permalink |-> <<"https://reddit.com", post.permalink>>,
     comments |-> <<>>]

\* for comment in post.comments.list()[:comment_limit]: append comment.body
WithComments(post_data, post, comment_limit) ==
    LET taken == PySlice(list(replace_more(post.comments)), comment_limit)
    IN  [post_data EXCEPT !.comments = [i \in 1..Len(taken) |-> taken[i].body]]

\* A loop that puts each post in front of the ones collected so far.
PrependPost(posts, post_data) == <<post_data>> \o posts

\* posts.append(post_data.model_dump())
AppendPost(posts, post_data) == Append(posts, post_data)

RECURSIVE FetchLoop(_, _, _, _, _)
\* The try block of a fetch tool from the k-th item of the listing on:
\* [tag |-> "ok", posts] on return, [tag |-> "exc", exc] when it raises.
FetchLoop(listing, k, posts, comment_limit, fail) ==
    IF fail.at = k /\ fail.phase = "next"
    THEN [tag |-> "exc", posts |-> posts, exc |-> fail.exc]
    ELSE IF k > Len(listing)
    THEN [tag |-> "ok", posts |-> posts, exc |-> fail.exc]
    ELSE IF fail.at = k /\ fail.phase \in {"fields", "comments"}
    THEN [tag |-> "exc", posts |-> posts, exc |-> fail.exc]
    ELSE FetchLoop(listing, k + 1,
                   AppendPost(posts, WithComments(RedditPost(listing[k]), listing[k], comment_limit)),
                   comment_limit, fail)

\* The outcome of an invocation.
Returned(v) == [kind |-> "returned", value |-> v, exc |-> None]
Raised(cls) == [kind |-> "raised", value |-> <<>>, exc |-> cls]
Rejected == [kind |-> "rejected", value |-> <<>>, exc |-> None]

\* The except block of a fetch tool once error_details holds its first
\* entries: e.response.status_code raises AttributeError when e.response is
\* None, and nothing catches it.
ErrorRecord(error_details, message, e) ==
    IF e.has # "absent"
    THEN IF e.has = "none"
         THEN Raised("AttributeError")
         ELSE Returned(<< [error_details |->
                              error_details @@
                              [http_status |-> e.response.status_code,
                               response_headers |-> e.response.headers,
                               response_body |-> PySlice(e.response.text, BodyLimit)],
                           message |-> message,
                           debug_info |-> "Check error_details for Reddit API response information"] >>)
    ELSE Returned(<< [error_details |-> error_details,
                      message |-> message,
                      debug_info |-> "Check error_details for Reddit API response information"] >>)

get_top_subreddit_posts(subreddits, limit, comment_limit, time_filter, up) ==
    LET r == FetchLoop(Listing(up.avail, limit), 1, <<>>, comment_limit, up.fail)
    IN  IF r.tag = "ok"
        THEN Returned(r.posts)
        ELSE ErrorRecord([error |-> r.exc.msg,
                          error_type |-> r.exc.cls,
                          subreddits |-> subreddits,
                          time_filter |-> time_filter,
                          reddit_read_only |-> TRUE,
                          client_id_exists |-> TRUE],
                         <<"Top posts retrieval failed for r/", subreddits, ": ", r.exc.msg>>,
                         r.exc)

search_posts(subreddits, query, limit, comment_limit, sort, up) ==
    LET r == FetchLoop(Listing(up.avail, limit), 1, <<>>, comment_limit, up.fail)
    IN  IF r.tag = "ok"
        THEN Returned(r.posts)
        ELSE ErrorRecord([error |-> r.exc.msg,
                          error_type |-> r.exc.cls,
                          subreddits |-> subreddits,
                          reddit_read_only |-> TRUE,
                          client_id_exists |-> TRUE],
                         <<"Subreddit search failed for r/", subreddits, ": ", r.exc.msg>>,
                         r.exc)

search_reddit(query, limit, comment_limit, sort, up) ==
    LET r == FetchLoop(Listing(up.avail, limit), 1, <<>>, comment_limit, up.fail)
    IN  IF r.tag = "ok"
        THEN Returned(r.posts)
        ELSE ErrorRecord([error |-> r.exc.msg,
                          error_type |-> r.exc.cls,
                          reddit_read_only |-> TRUE,
                          client_id_exists |-> TRUE],
                         <<"Reddit search failed: ", r.exc.msg>>,
                         r.exc)

\* ------------------------------------------------------ the Notion writer
\* A success test that accepts every 2xx status.
IsAny2xx(status_code) == status_code \in 200..299

\* if response.status_code == 200
IsSuccess(status_code) == status_code = 200

\* A configuration check that forgets the API token.
MissingConfigNoTokenCheck(database_id, api_token) ==
    IF ~Truthy(database_id)
    THEN << [error |-> "NOTION_QA_DATABASE_ID or NOTION_DATABASE_ID environment variable not set"] >>
    ELSE <<>>

\* The two early returns of save_reddit_qa_to_notion: the error result, or
\* <<>> when both values are configured.
MissingConfig(database_id, api_token) ==
    IF ~Truthy(database_id)
    THEN << [error |-> "NOTION_QA_DATABASE_ID or NOTION_DATABASE_ID environment variable not set"] >>
    ELSE IF ~Truthy(api_token)
    THEN << [error |-> "NOTION_API_TOKEN environment variable not set"] >>
    ELSE <<>>

\* A line numbered from 0, as enumerate(reddit_sources) would.
SourceLineFromZero(i, source) ==
    << ToString(i - 1), ". [", Get(source, "title", "Untitled"), "](",
       Get(source, "url", "#"), ")", "\n" >>

\* f"{i}. [{source.get('title', 'Untitled')}]({source.get('url', '#')})\n"
SourceLine(i, source) ==
    << ToString(i), ". [", Get(source, "title", "Untitled"), "](",
       Get(source, "url", "#"), ")", "\n" >>

RECURSIVE SourcesText(_, _)
\* for i, source in enumerate(reddit_sources, 1): sources_text += ...
SourcesText(reddit_sources, i) ==
    IF i > Len(reddit_sources) THEN <<>>
    ELSE SourceLine(i, reddit_sources[i]) \o SourcesText(reddit_sources, i + 1)

\* The arguments of requests.post(url_endpoint, json=page_data, headers=headers).
NotionRequest(database_id, api_token, question, answer, search_query, sources_text) ==
    [url |-> "https://api.notion.com/v1/pages",
     headers |-> [Authorization |-> <<"Bearer ", api_token>>,
                  ContentType |-> "application/json",
                  NotionVersion |-> "2022-06-28"],
     json |-> [parent |-> [database_id |-> database_id],
               properties |-> [Question |-> question,
                               Answer |-> answer,
                               SearchQuery |-> search_query,
                               RedditSources |-> sources_text,
                               Created |-> "datetime.now().isoformat()"]]]

\* What requests.post does: it returns a response or raises.
NotionAnswers ==
    [kind : {"response"}, status_code : {200, 201, 400}, text : {"{\"object\": \"x\"}"}]
    \cup [kind : {"exception"}, status_code : {0}, text : {"connection refused"}]

\* The values os.getenv gives one invocation.
NotionEnvs ==
    [NOTION_QA_DATABASE_ID : {None, "", "qa-db"},
     NOTION_DATABASE_ID : {None, "db"},
     NOTION_API_TOKEN : {None, "", "secret_tok"}]

\* The part of save_reddit_qa_to_notion after the request was sent.
SaveResult(question, answer_) ==
    IF answer_.kind = "exception"
    THEN [error |-> <<"Error saving Q&A to Notion: ", answer_.text>>]
    ELSE IF IsSuccess(answer_.status_code)
    THEN [success |-> TRUE,
          message |-> "Successfully saved Q&A session to Notion",
          question |-> IF Len(question) > QuestionLimit
                       THEN PySlice(question, QuestionLimit) \o <<"...">>
                       ELSE question]
    ELSE [error |-> <<"Failed to save to Notion: ", ToString(answer_.status_code),
                      " - ", answer_.text>>]

\* save_reddit_qa_to_notion: the result, the requests it sent and the
\* answers it got (notion is what requests.post would do if called).
save_reddit_qa_to_notion(question, answer, search_query, reddit_sources, env, notion) ==
    LET database_id == Or(env.NOTION_QA_DATABASE_ID, env.NOTION_DATABASE_ID)
        api_token == env.NOTION_API_TOKEN
        missing == MissingConfig(database_id, api_token)
    IN  IF missing # <<>>
        THEN [out |-> Returned(missing[1]), sent |-> <<>>, answered |-> <<>>]
        ELSE [out |-> Returned(SaveResult(question, notion)),
              sent |-> << NotionRequest(database_id, api_token, question, answer,
                                        search_query, SourcesText(reddit_sources, 1)) >>,
              answered |-> <<notion>>]

\* ------------------------------------------------------------ the server
VARIABLES
    transport,       \* --transport: "stdio" or "http"
    valid_token,     \* SimpleTokenVerifier.valid_token, os.getenv("MCP_API_KEY")
    pc,              \* "idle", or "done" while a result waits to be sent back
    last,            \* the invocation being answered: arguments, upstream, outcome
    nCalls,          \* invocations received
    redditCalls,     \* listings requested from Reddit
    notionRequests,  \* page-creation requests sent to Notion
    pagesCreated,    \* pages the Notion database holds
    hist             \* history: save invocations made configured / answered 200

vars == <<transport, valid_token, pc, last, nCalls, redditCalls, notionRequests,
          pagesCreated, hist>>

NoCall == [tool |-> "none"]

ToolNames == {"get_top_subreddit_posts", "search_posts", "search_reddit",
              "save_reddit_qa_to_notion"}

Subreddits == {"python", "redditdev+learnpython"}
TimeFilters == {"week"}
Queries == {"langchain"}
Sorts == {"relevance"}
Questions == {Text(3), Text(QuestionLimit + 1)}
Answers == {<<"an answer">>}
Sources ==
    { {<<"title", "A">>, <<"url", "http://x">>},
      {},
      {<<"title", "B">>},
      {<<"url", "http://y">>} }

\* The bearer tokens a caller presents; the stdio transport carries none.
Tokens == IF transport = "stdio" THEN {None} ELSE {"", "s3cret", "wrong"}

\* The dispatcher's check before a tool runs: none on stdio; on http the
\* verifier must return an AccessToken holding the required scopes.
Authorized(token) ==
    \/ transport = "stdio"
    \/ LET access == verify_token(valid_token, token)
       IN  access # <<>> /\ required_scopes \subseteq access[1].scopes

\* The transports and the values of MCP_API_KEY a server starts with (the
\* stdio transport never consults the key).
Startups ==
    ({"stdio"} \X {None, "s3cret"}) \cup ({"http"} \X {None, "", "s3cret"})

Init ==
    /\ \E s \in Startups : transport = s[1] /\ valid_token = s[2]
    /\ pc = "idle"
    /\ last = NoCall
    /\ nCalls = 0
    /\ redditCalls = 0
    /\ notionRequests = 0
    /\ pagesCreated = 0
    /\ hist = [configured |-> 0, ok200 |-> 0]

Received ==
    /\ pc = "idle"
    /\ nCalls < MaxCalls
    /\ pc' = "done"
    /\ nCalls' = nCalls + 1
    /\ UNCHANGED <<transport, valid_token>>

CallGetTop ==
    /\ Received
    /\ \E token \in Tokens, subreddits \in Subreddits, limit \in Limits,
          comment_limit \in Limits, time_filter \in TimeFilters, up \in Upstreams :
          /\ Authorized(token)
          /\ last' = [tool |-> "get_top_subreddit_posts", token |-> token,
                      subreddits |-> subreddits, limit |-> limit,
                      comment_limit |-> comment_limit, time_filter |-> time_filter,
                      up |-> up,
                      out |-> get_top_subreddit_posts(subreddits, limit, comment_limit,
                                                      time_filter, up)]
    /\ redditCalls' = redditCalls + 1
    /\ UNCHANGED <<notionRequests, pagesCreated, hist>>

CallSearchPosts ==
    /\ Received
    /\ \E token \in Tokens, subreddits \in Subreddits, query \in Queries,
          limit \in Limits, comment_limit \in Limits, sort \in Sorts, up \in Upstreams :
          /\ Authorized(token)
          /\ last' = [tool |-> "search_posts", token |-> token,
                      subreddits |-> subreddits, query |-> query, limit |-> limit,
                      comment_limit |-> comment_limit, sort |-> sort, up |-> up,
                      out |-> search_posts(subreddits, query, limit, comment_limit,
                                           sort, up)]
    /\ redditCalls' = redditCalls + 1
    /\ UNCHANGED <<notionRequests, pagesCreated, hist>>

CallSearchReddit ==
    /\ Received
    /\ \E token \in Tokens, query \in Queries, limit \in Limits,
          comment_limit \in Limits, sort \in Sorts, up \in Upstreams :
          /\ Authorized(token)
          /\ last' = [tool |-> "search_reddit", token |-> token,
                      query |-> query, limit |-> limit,
                      comment_limit |-> comment_limit, sort |-> sort, up |-> up,
                      out |-> search_reddit(query, limit, comment_limit, sort, up)]
    /\ redditCalls' = redditCalls + 1
    /\ UNCHANGED <<notionRequests, pagesCreated, hist>>

\* Notion creates one page for every request it answers with status 200.
PagesFrom(answered) ==
    Cardinality({i \in 1..Len(answered) :
                    answered[i].kind = "response" /\ answered[i].status_code = 200})

CallSave ==
    /\ Received
    /\ \E token \in Tokens, question \in Questions, answer \in Answers,
          search_query \in Queries,
          reddit_sources \in SeqsUpTo(Sources, MaxSources),
          env \in NotionEnvs, notion \in NotionAnswers :
          LET r == save_reddit_qa_to_notion(question, answer, search_query,
                                            reddit_sources, env, notion)
              configured == Truthy(Or(env.NOTION_QA_DATABASE_ID, env.NOTION_DATABASE_ID))
                            /\ Truthy(env.NOTION_API_TOKEN)
          IN  /\ Authorized(token)
              /\ last' = [tool |-> "save_reddit_qa_to_notion", token |-> token,
                          question |-> question, answer |-> answer,
                          search_query |-> search_query,
                          reddit_sources |-> reddit_sources, env |-> env,
                          sent |-> r.sent, answered |-> r.answered, out |-> r.out]
              /\ notionRequests' = notionRequests + Len(r.sent)
              /\ pagesCreated' = pagesCreated + PagesFrom(r.answered)
              /\ hist' = [configured |-> hist.configured + (IF configured THEN 1 ELSE 0),
                          ok200 |-> hist.ok200 +
                                    (IF configured /\ notion.kind = "response"
                                        /\ notion.status_code = 200 THEN 1 ELSE 0)]
    /\ UNCHANGED redditCalls

\* A call on the http transport whose token the verifier refuses never
\* reaches a tool.
RejectCall ==
    /\ Received
    /\ transport = "http"
    /\ \E token \in Tokens, tool \in ToolNames :
          /\ ~Authorized(token)
          /\ last' = [tool |-> tool, token |-> token, out |-> Rejected]
    /\ UNCHANGED <<redditCalls, notionRequests, pagesCreated, hist>>

\* The dispatcher sends the outcome back; nothing of the invocation is kept.
Respond ==
    /\ pc = "done"
    /\ pc' = "idle"
    /\ last' = NoCall
    /\ UNCHANGED <<transport, valid_token, nCalls, redditCalls, notionRequests,
                   pagesCreated, hist>>

Next ==
    \/ CallGetTop
    \/ CallSearchPosts
    \/ CallSearchReddit
    \/ CallSave
    \/ RejectCall
    \/ Respond

Spec == Init /\ [][Next]_vars

\* ------------------------------------------------------------ properties
IsFetch == last.tool \in {"get_top_subreddit_posts", "search_posts", "search_reddit"}

\* A tool ran for the invocation being answered.
FetchDone == pc = "done" /\ IsFetch /\ last.out.kind # "rejected"
SaveDone == pc = "done" /\ last.tool = "save_reddit_qa_to_notion" /\ last.out.kind # "rejected"

IsPost(r) == "title" \in DOMAIN r
IsError(r) == "error_details" \in DOMAIN r

\* The posts the upstream listing yields for the call being answered.
Yielded == Listing(last.up.avail, last.limit)

\* The upstream raised during the call being answered.
ExceptionOccurred ==
    LET f == last.up.fail
    IN  \/ f.phase = "next" /\ f.at <= Len(Yielded) + 1
        \/ f.phase \in {"fields", "comments"} /\ f.at <= Len(Yielded)

\* The call being answered returned a list of Post records.
SuccessfulFetch ==
    /\ FetchDone
    /\ last.out.kind = "returned"
    /\ \A j \in 1..Len(last.out.value) : IsPost(last.out.value[j])

\* The first n entries of s (all of s when it has fewer), for a count n.
FirstN(s, n) == [i \in 1..(IF n < Len(s) THEN n ELSE Len(s)) |-> s[i]]

\* C1: every invocation of one of the four tools ends by returning a value;
\* no exception escapes to the dispatcher, whatever the upstream raises
\* (also an exception whose response attribute is None).
C1_NoExceptionEscapes ==
    (pc = "done" /\ last.out.kind # "rejected") => last.out.kind = "returned"

\* C2: when the upstream raises at any point of a fetch (the listing, the
\* k-th post's fields, the k-th post's comments), the call returns a list of
\* exactly one element, an Error record, and no Post record collected before.
C2_ExceptionGivesOneErrorRecord ==
    (FetchDone /\ ExceptionOccurred) =>
        /\ last.out.kind = "returned"
        /\ Len(last.out.value) = 1
        /\ IsError(last.out.value[1])
        /\ \A j \in 1..Len(last.out.value) : ~IsPost(last.out.value[j])

\* C3 as stated: for any integer limit and comment_limit, a successful fetch
\* returns at most limit records, each with at most comment_limit comments.
C3_AnyIntegerLimits ==
    SuccessfulFetch =>
        /\ Len(last.out.value) <= last.limit
        /\ \A j \in 1..Len(last.out.value) :
              Len(last.out.value[j].comments) <= last.comment_limit

\* C3 amended: a successful fetch with limit >= 0 returns at most limit
\* records, and with comment_limit >= 0 every record has at most
\* comment_limit comments.
C3_NonNegativeLimits ==
    SuccessfulFetch =>
        /\ last.limit >= 0 => Len(last.out.value) <= last.limit
        /\ last.comment_limit >= 0 =>
              \A j \in 1..Len(last.out.value) :
                  Len(last.out.value[j].comments) <= last.comment_limit

\* A fetch cut by both limits: two posts available and one returned, three
\* comments in the tree and one kept.
C3_Witness ==
    /\ SuccessfulFetch
    /\ last.limit = 1 /\ Len(last.up.avail) = 2 /\ Len(last.out.value) = 1
    /\ last.comment_limit = 1
    /\ Len(list(replace_more(last.up.avail[1].comments))) = 3
    /\ Len(last.out.value[1].comments) = 1

\* C4: the Error record of a failed fetch carries the request parameters:
\* get_top_subreddit_posts the subreddits and the time filter, search_posts
\* the subreddits and the query, search_reddit the query.
C4_ErrorRecordCarriesParameters ==
    (FetchDone /\ last.out.kind = "returned" /\ ExceptionOccurred) =>
        LET d == last.out.value[1].error_details
        IN  /\ last.tool = "get_top_subreddit_posts" =>
                  /\ "subreddits" \in DOMAIN d /\ d.subreddits = last.subreddits
                  /\ "time_filter" \in DOMAIN d /\ d.time_filter = last.time_filter
            /\ last.tool = "search_posts" =>
                  /\ "subreddits" \in DOMAIN d /\ d.subreddits = last.subreddits
                  /\ "query" \in DOMAIN d /\ d.query = last.query
            /\ last.tool = "search_reddit" =>
                  "query" \in DOMAIN d /\ d.query = last.query

\* C5: when the upstream raises an exception carrying an HTTP response, the
\* result is one Error record with that response's status, headers and the
\* first 500 characters of its body, and error_type the exception's class;
\* when the exception carries no response, the record has none of the three
\* HTTP fields.
C5_HttpFieldsFollowResponse ==
    (FetchDone /\ ExceptionOccurred) =>
        LET e == last.up.fail.exc
        IN  /\ last.out.kind = "returned"
            /\ Len(last.out.value) = 1
            /\ IsError(last.out.value[1])
            /\ LET d == last.out.value[1].error_details
               IN  /\ d.error_type = e.cls
                   /\ IF e.has = "present"
                      THEN /\ d.http_status = e.response.status_code
                           /\ d.response_headers = e.response.headers
                           /\ d.response_body = FirstN(e.response.text, BodyLimit)
                      ELSE {"http_status", "response_headers", "response_body"}
                              \cap DOMAIN d = {}

\* Both configuration values resolve for the save call being answered.
Configured ==
    /\ \/ Truthy(last.env.NOTION_QA_DATABASE_ID)
       \/ Truthy(last.env.NOTION_DATABASE_ID)
    /\ Truthy(last.env.NOTION_API_TOKEN)

\* C6: a save invocation made without a database id or without an API token
\* returns an error naming the missing variable and sends no request; one
\* made with both sends exactly one request; over any run the requests sent
\* number the configured invocations, and the pages created number the
\* invocations answered with status 200.
C6_OneRequestPerConfiguredInvocation ==
    /\ notionRequests = hist.configured
    /\ pagesCreated = hist.ok200
    /\ SaveDone =>
          IF Configured
          THEN Len(last.sent) = 1
          ELSE /\ Len(last.sent) = 0
               /\ last.out.kind = "returned"
               /\ "error" \in DOMAIN last.out.value
               /\ last.out.value.error =
                     IF Truthy(last.env.NOTION_QA_DATABASE_ID)
                        \/ Truthy(last.env.NOTION_DATABASE_ID)
                     THEN "NOTION_API_TOKEN environment variable not set"
                     ELSE "NOTION_QA_DATABASE_ID or NOTION_DATABASE_ID environment variable not set"

\* The second of two configured save invocations, each answered 200: two
\* requests were sent and two pages exist.
C6_Witness ==
    /\ SaveDone /\ Configured
    /\ nCalls = 2 /\ hist.ok200 = 2
    /\ notionRequests = 2 /\ pagesCreated = 2

IsSuccessResult(v) == "success" \in DOMAIN v /\ v.success = TRUE
Contains(text, part) == \E i \in 1..Len(text) : text[i] = part

\* C7: save returns success = True exactly when the request was sent and
\* answered with status 200; any other status gives an error whose text
\* holds the status code and the response body, and a transport exception
\* gives an error holding the exception's message.
C7_SuccessOnlyOnStatus200 ==
    SaveDone =>
        /\ last.out.kind = "returned"
        /\ IsSuccessResult(last.out.value) <=>
              /\ Len(last.sent) = 1
              /\ last.answered[1].kind = "response"
              /\ last.answered[1].status_code = 200
        /\ (Len(last.sent) = 1 /\ last.answered[1].kind = "response"
              /\ last.answered[1].status_code # 200) =>
              /\ "error" \in DOMAIN last.out.value
              /\ Contains(last.out.value.error, ToString(last.answered[1].status_code))
              /\ Contains(last.out.value.error, last.answered[1].text)
        /\ (Len(last.sent) = 1 /\ last.answered[1].kind = "exception") =>
              /\ "error" \in DOMAIN last.out.value
              /\ Contains(last.out.value.error, last.answered[1].text)

\* A request answered 201 gave an error result.
C7_Witness ==
    /\ SaveDone
    /\ Len(last.sent) = 1
    /\ last.answered[1].kind = "response" /\ last.answered[1].status_code = 201
    /\ "error" \in DOMAIN last.out.value

RECURSIVE SplitLines(_, _)
\* The lines of a text: the runs of parts each "\n" ends, and what follows
\* the last "\n" if anything does (cur is the line being read).
SplitLines(text, cur) ==
    IF text = <<>> THEN (IF cur = <<>> THEN <<>> ELSE <<cur>>)
    ELSE IF Head(text) = "\n" THEN <<cur>> \o SplitLines(Tail(text), <<>>)
    ELSE SplitLines(Tail(text), Append(cur, Head(text)))

HasKey(source, key) == \E p \in source : p[1] = key
ValueOf(source, key) == (CHOOSE p \in source : p[1] = key)[2]

\* C8: the sources block sent to Notion has one line per source, in input
\* order, line i being "i. [title](url)" with "Untitled" for a missing title
\* and "#" for a missing url.
C8_OneNumberedLinePerSource ==
    (SaveDone /\ Len(last.sent) = 1) =>
        LET lines == SplitLines(last.sent[1].json.properties.RedditSources, <<>>)
        IN  /\ Len(lines) = Len(last.reddit_sources)
            /\ \A i \in 1..Len(last.reddit_sources) :
                  LET source == last.reddit_sources[i]
                  IN  lines[i] =
                        << ToString(i), ". [",
                           IF HasKey(source, "title") THEN ValueOf(source, "title") ELSE "Untitled",
                           "](",
                           IF HasKey(source, "url") THEN ValueOf(source, "url") ELSE "#",
                           ")" >>

\* reddit_sources = [{title: A, url: http://x}, {}] was rendered as
\* "1. [A](http://x)" then "2. [Untitled](#)".
C8_Witness ==
    /\ SaveDone /\ Len(last.sent) = 1
    /\ last.reddit_sources = << {<<"title", "A">>, <<"url", "http://x">>}, {} >>
    /\ SplitLines(last.sent[1].json.properties.RedditSources, <<>>) =
          << <<"1", ". [", "A", "](", "http://x", ")">>,
             <<"2", ". [", "Untitled", "](", "#", ")">> >>

\* C9: on the http transport a call is accepted exactly when a non-empty
\* secret is configured and the presented token equals it; a call that is
\* not accepted is rejected and causes no Reddit or Notion call.
C9_OnlyValidTokenReachesTools ==
    [][(pc = "idle" /\ pc' = "done" /\ transport = "http") =>
          IF valid_token # None /\ valid_token # "" /\ last'.token = valid_token
          THEN last'.out.kind # "rejected"
          ELSE /\ last'.out.kind = "rejected"
               /\ redditCalls' = redditCalls
               /\ notionRequests' = notionRequests
               /\ pagesCreated' = pagesCreated]_vars

\* A call with a wrong token was rejected on a server that had served an
\* accepted fetch before: the counters still show that one fetch only.
C9_Witness ==
    /\ pc = "done" /\ transport = "http" /\ valid_token = "s3cret"
    /\ last.out.kind = "rejected" /\ last.token = "wrong"
    /\ nCalls = 2 /\ redditCalls = 1 /\ notionRequests = 0

\* What record r and post p must agree on whatever the comment limit.
BuiltFrom(r, p) ==
    /\ r.title = p.title /\ r.body = p.selftext /\ r.url = p.url
    /\ r.created_utc = p.created_utc
    /\ r.num_comments = p.num_comments
    /\ r.permalink = <<"https://reddit.com", p.permalink>>
    /\ p.comments = <<>> => r.comments = <<>>

\* The bodies of a post's flattened comment tree without its placeholders.
Bodies(p) ==
    LET flat == list(replace_more(p.comments))
    IN  [i \in 1..Len(flat) |-> flat[i].body]

\* C10 as stated: a successful fetch returns one record per post the listing
\* yielded, in the listing's order, record j built from post j with the
\* bodies of the first comment_limit entries of the post's flattened tree
\* without placeholders as its comments; an empty tree gives no comments.
C10_FirstCommentLimitEntries ==
    (SuccessfulFetch /\ ~ExceptionOccurred) =>
        /\ Len(last.out.value) = Len(Yielded)
        /\ \A j \in 1..Len(Yielded) :
              /\ BuiltFrom(last.out.value[j], Yielded[j])
              /\ last.out.value[j].comments = FirstN(Bodies(Yielded[j]), last.comment_limit)

\* C10 amended: as stated when comment_limit >= 0; with a negative
\* comment_limit c the comments are all the bodies but the last -c.
C10_RecordsFollowListing ==
    (SuccessfulFetch /\ ~ExceptionOccurred) =>
        /\ Len(last.out.value) = Len(Yielded)
        /\ \A j \in 1..Len(Yielded) :
              /\ BuiltFrom(last.out.value[j], Yielded[j])
              /\ last.out.value[j].comments =
                    FirstN(Bodies(Yielded[j]),
                           IF last.comment_limit >= 0
                           THEN last.comment_limit
                           ELSE Len(Bodies(Yielded[j])) + last.comment_limit)

\* Two posts came back in the listing's order, the first with the first
\* comment of its three and the second, whose tree is empty, with none.
C10_Witness ==
    /\ SuccessfulFetch /\ ~ExceptionOccurred
    /\ last.comment_limit = 1
    /\ Len(last.out.value) = 2
    /\ last.out.value[1].title = "t1" /\ last.out.value[2].title = "t2"
    /\ last.out.value[1].comments = <<"c1">>
    /\ last.out.value[2].comments = <<>>

====
